---- MODULE Spec2Model ----
(***************************************************************************)
(* Model of src/payment.ts (class WechatPayment): request signing,         *)
(* required-field validation, the transport exchange and response          *)
(* validation.                                                             *)
(*                                                                         *)
(* JavaScript values are tagged records; a JavaScript object is a sequence *)
(* of <<key, value>> pairs with distinct keys, in insertion order (the     *)
(* order Object.keys and for..in enumerate).                               *)
(***************************************************************************)
EXTENDS Integers, Sequences, FiniteSets, TLC

\* ------------------------------------------------------------------ bounds
\* most fields a caller adds to a call of signedQuery / unifiedOrder
MaxParams == 2
\* most fields of a package handed to getSign directly
MaxPkg == 3
\* most fields (besides sign) of a response document
MaxRespFields == 3

\* ------------------------------------------------------- JavaScript values
Undefined == [k |-> "undefined"]
Null == [k |-> "null"]
Str(s) == [k |-> "string", s |-> s]
Num(n) == [k |-> "number", n |-> n]
\* a hex digest string: the digest of text under alg, in lower or upper case
Hex(alg, text, upper) == [k |-> "hex", alg |-> alg, text |-> text, upper |-> upper]

\* JavaScript truthiness of a value
Truthy(v) ==
  CASE v.k = "undefined" -> FALSE
    [] v.k = "null" -> FALSE
    [] v.k = "string" -> v.s # ""
    [] v.k = "number" -> v.n # 0
    [] OTHER -> TRUE

\* the characters of a value when JavaScript concatenates it to a string
JsString(v) ==
  CASE v.k = "undefined" -> "undefined"
    [] v.k = "null" -> "null"
    [] v.k = "string" -> v.s
    [] v.k = "number" -> ToString(v.n)
    [] OTHER -> (IF v.upper THEN (IF v.alg = "sha1" THEN "SHA1(" ELSE "MD5(")
                            ELSE (IF v.alg = "sha1" THEN "sha1(" ELSE "md5("))
                \o v.text \o ")"

\* value.toString() for a value that is neither undefined nor null
toString(v) == IF v.k \in {"string", "hex"} THEN v ELSE Str(JsString(v))

\* String.prototype.toUpperCase on a hex digest
toUpperCase(v) == IF v.k = "hex" THEN [v EXCEPT !.upper = TRUE] ELSE v

\* encodeURIComponent on the strings of the model: ':', '/', '?', '=' and ' '
\* are escaped, unreserved characters stay
encodeURIComponent(v) ==
  CASE v = Str("http://x/?a=1") -> Str("http%3A%2F%2Fx%2F%3Fa%3D1")
    [] v = Str("a b") -> Str("a%20b")
    [] OTHER -> Str(JsString(v))

\* ------------------------------------------------------ JavaScript objects
\* field names of the model in ascending order of UTF-16 code units
\* (upper case before '_' before lower case), the order Array.sort() uses
FieldNames ==
  << "a", "appid", "b", "body", "c", "long_url", "mch_id", "mchid",
     "nonce_str", "notify_url", "openid", "out_trade_no", "prepay_id",
     "product_id", "result_code", "return_code", "sign", "spbill_create_ip",
     "sub_mch_id", "sub_openid", "total_fee", "trade_type" >>

Rank(key) == CHOOSE i \in 1..Len(FieldNames) : FieldNames[i] = key

Keys(obj) == [i \in 1..Len(obj) |-> obj[i][1]]

Has(obj, key) == \E i \in 1..Len(obj) : obj[i][1] = key

\* obj[key]
Get(obj, key) ==
  IF Has(obj, key)
    THEN obj[CHOOSE i \in 1..Len(obj) : obj[i][1] = key][2]
    ELSE Undefined

\* obj[key] = v
Put(obj, key, v) ==
  IF Has(obj, key)
    THEN [i \in 1..Len(obj) |-> IF obj[i][1] = key THEN <<key, v>> ELSE obj[i]]
    ELSE Append(obj, <<key, v>>)

\* delete obj[key]
Delete(obj, key) == SelectSeq(obj, LAMBDA p : p[1] # key)

\* _.extend(dst, src): every own key of src is assigned onto dst
RECURSIVE Extend(_, _)
Extend(dst, src) ==
  IF src = <<>> THEN dst
  ELSE Extend(Put(dst, Head(src)[1], Head(src)[2]), Tail(src))

\* Array.prototype.sort() without comparator, on field names
InsertSorted(s, key) ==
  LET n == Cardinality({i \in 1..Len(s) : Rank(s[i]) <= Rank(key)})
  IN SubSeq(s, 1, n) \o <<key>> \o SubSeq(s, n + 1, Len(s))

RECURSIVE sort(_)
sort(s) == IF s = <<>> THEN <<>> ELSE InsertSorted(sort(Tail(s)), Head(s))

\* Array.prototype.join
RECURSIVE join(_, _)
join(s, sep) ==
  IF s = <<>> THEN ""
  ELSE IF Len(s) = 1 THEN s[1]
  ELSE s[1] \o sep \o join(Tail(s), sep)

\* ------------------------------------------------------------ pure methods
\* toQueryString without its sort(): the pairs stay in insertion order
toQueryStringUnsorted(object) ==
  LET kept == SelectSeq(Keys(object),
                LAMBDA key : Get(object, key) # Undefined /\ Get(object, key) # Str(""))
      pairs == [i \in 1..Len(kept) |->
                  kept[i] \o "=" \o JsString(Get(object, kept[i]))]
  IN join(pairs, "&")

toQueryString(object) ==
  LET kept == SelectSeq(Keys(object),
                LAMBDA key : Get(object, key) # Undefined /\ Get(object, key) # Str(""))
      sorted == sort(kept)
      pairs == [i \in 1..Len(sorted) |->
                  sorted[i] \o "=" \o JsString(Get(object, sorted[i]))]
  IN join(pairs, "&")

signByType(type, text) ==
  IF type = "sha1" THEN Hex("sha1", text, FALSE) ELSE Hex("md5", text, FALSE)

\* ------------------------------------------------------------------ state
VARIABLES
  config,     \* the client's configuration (initConfig), fixed after construction
  pc,         \* "idle" | "await" (suspended at axios.get) | "done"
  call,       \* the entry point called and its arguments
  local,      \* signedQuery's locals: params after the merge, params as serialized, missing
  request,    \* the XML document handed to axios.get
  transport,  \* "none" | "pending" | "taken" | "resolved" | "rejected"
  body,       \* the raw body given to validate
  callbacks,  \* the invocations of the caller's callback, in order
  inner,      \* the invocations of the callback getBrandWCPayRequestParams
              \* hands to unifiedOrder, in order
  signed      \* the last direct getSign call: its package, string1 and result

vars == <<config, pc, call, local, request, transport, body, callbacks, inner, signed>>

\* this.urls: the endpoints signedQuery tells apart, and one of the others
UNIFIED_ORDER == "https://api.mch.weixin.qq.com/pay/unifiedorder"
SHORT_URL == "https://api.mch.weixin.qq.com/tools/shorturl"
REDPACK_SEND == "https://api.mch.weixin.qq.com/mmpaymkttransfers/sendredpack"
TRANSFERS == "https://api.mch.weixin.qq.com/mmpaymkttransfers/promotion/transfers"

\* the configurations a client is constructed with: the sub-merchant id
\* is optional
Configs ==
  [appId : {Str("wx1")}, partnerKey : {Str("key1")}, mchId : {Str("mch1")},
   subMchId : {Undefined, Str("sub1")},
   notifyUrl : {Str("notify")}, pfx : {Undefined}]

\* generateNonceStr: a random non-empty string
Nonces == {Str("nonceA"), Str("nonceB")}

\* ---------------------------------------------------------------- methods
\* extendWithDefault with the arguments of _.extend exchanged: the defaults
\* are assigned over the caller's fields
extendWithDefaultOverwriting(obj, keysNeedExtend, nonce) ==
  LET defaults == << <<"appid", config.appId>>, <<"mch_id", config.mchId>>,
                     <<"sub_mch_id", config.subMchId>>, <<"nonce_str", nonce>>,
                     <<"notify_url", config.notifyUrl>>,
                     <<"op_user_id", config.mchId>>, <<"pfx", config.pfx>> >>
      wanted == SelectSeq(keysNeedExtend, LAMBDA key : Truthy(Get(defaults, key)))
      extendObject == [i \in 1..Len(wanted) |-> <<wanted[i], Get(defaults, wanted[i])>>]
  IN Extend(obj, extendObject)

extendWithDefault(obj, keysNeedExtend, nonce) ==
  LET defaults == << <<"appid", config.appId>>, <<"mch_id", config.mchId>>,
                     <<"sub_mch_id", config.subMchId>>, <<"nonce_str", nonce>>,
                     <<"notify_url", config.notifyUrl>>,
                     <<"op_user_id", config.mchId>>, <<"pfx", config.pfx>> >>
      wanted == SelectSeq(keysNeedExtend, LAMBDA key : Truthy(Get(defaults, key)))
      extendObject == [i \in 1..Len(wanted) |-> <<wanted[i], Get(defaults, wanted[i])>>]
  IN Extend(extendObject, obj)

\* the local string1 of getSign
getSignString1(pkg) == toQueryString(Delete(pkg, "sign"))

\* getSign without toUpperCase(): the digest stays lower-case
getSignLowerCase(pkg, signType) ==
  LET currentSignType == IF signType = "" THEN "md5" ELSE signType
      string1 == getSignString1(pkg)
      stringSignTemp == string1 \o "&key=" \o JsString(config.partnerKey)
  IN signByType(currentSignType, stringSignTemp)

\* signType "" stands for an omitted argument
getSign(pkg, signType) ==
  LET currentSignType == IF signType = "" THEN "md5" ELSE signType
      string1 == getSignString1(pkg)
      stringSignTemp == string1 \o "&key=" \o JsString(config.partnerKey)
  IN toUpperCase(signByType(currentSignType, stringSignTemp))

\* xml2js.Builder.buildObject({xml: obj}): one child element per field, its
\* text the field's string form; null and undefined give an empty element
buildXml(obj) ==
  [root |-> "xml",
   children |-> [i \in 1..Len(obj) |->
                   <<obj[i][1],
                     IF obj[i][2] \in {Undefined, Null} THEN "" ELSE JsString(obj[i][2])>>]]

NoXml == [root |-> "", children |-> <<>>]

\* key.split("|") on the required entries of the model
split(key) ==
  CASE key = "openid|sub_openid" -> <<"openid", "sub_openid">>
    [] key = "a|b" -> <<"a", "b">>
    [] OTHER -> <<key>>

\* ------------------------------------------------------------- callbacks
NoError == [name |-> "null", message |-> ""]
Error(name, message) == [name |-> name, message |-> message]

\* callback(err): one argument
Cb1(err) == [err |-> err, second |-> "none", fields |-> <<>>]
\* callback(err, data): data a field map
Cb2(err, data) == [err |-> err, second |-> "fields", fields |-> data]
\* callback(err, xml): the raw body
CbRaw(err) == [err |-> err, second |-> "raw", fields |-> <<>>]

\* ------------------------------------------------------------ raw bodies
\* what xml2js.parseString makes of a raw body: an error, a null document
\* (blank body) or the fields of the xml envelope
Malformed == [parse |-> "error", fields |-> <<>>]
Blank == [parse |-> "null", fields |-> <<>>]
Doc(fields) == [parse |-> "xml", fields |-> fields]
NoBody == [parse |-> "none", fields |-> <<>>]

\* new Error(x).message
ErrorMessage(v) == IF v = Undefined THEN "" ELSE JsString(v)

\* validate with the signature checked before the identity fields
validateSignFirst(xml) ==
  IF xml.parse = "error" THEN CbRaw(Error("XMLParseError", ""))
  ELSE
    LET data == IF xml.parse = "null" THEN <<>> ELSE xml.fields
        error ==
          IF Get(data, "return_code") = Str("FAIL")
            THEN Error("ProtocolError", ErrorMessage(Get(data, "return_msg")))
          ELSE IF Get(data, "result_code") = Str("FAIL")
            THEN Error("BusinessError", ErrorMessage(Get(data, "err_code")))
          ELSE IF Truthy(Get(data, "sign")) /\ getSign(data, "") # Get(data, "sign")
            THEN Error("InvalidSignature", "")
          ELSE IF Truthy(Get(data, "appid")) /\ config.appId # Get(data, "appid")
            THEN Error("InvalidAppId", "")
          ELSE IF Truthy(Get(data, "mch_id")) /\ config.mchId # Get(data, "mch_id")
            THEN Error("InvalidMchId", "")
          ELSE IF Truthy(Get(data, "mchid")) /\ config.mchId # Get(data, "mchid")
            THEN Error("InvalidMchId", "")
          ELSE IF Truthy(config.subMchId) /\ config.subMchId # Get(data, "sub_mch_id")
            THEN Error("InvalidSubMchId", "")
          ELSE NoError
    IN Cb2(error, data)

\* the callback invocation validate makes for a raw body
validate(xml) ==
  IF xml.parse = "error" THEN CbRaw(Error("XMLParseError", ""))
  ELSE
    LET data == IF xml.parse = "null" THEN <<>> ELSE xml.fields
        error ==
          IF Get(data, "return_code") = Str("FAIL")
            THEN Error("ProtocolError", ErrorMessage(Get(data, "return_msg")))
          ELSE IF Get(data, "result_code") = Str("FAIL")
            THEN Error("BusinessError", ErrorMessage(Get(data, "err_code")))
          ELSE IF Truthy(Get(data, "appid")) /\ config.appId # Get(data, "appid")
            THEN Error("InvalidAppId", "")
          ELSE IF Truthy(Get(data, "mch_id")) /\ config.mchId # Get(data, "mch_id")
            THEN Error("InvalidMchId", "")
          ELSE IF Truthy(Get(data, "mchid")) /\ config.mchId # Get(data, "mchid")
            THEN Error("InvalidMchId", "")
          ELSE IF Truthy(config.subMchId) /\ config.subMchId # Get(data, "sub_mch_id")
            THEN Error("InvalidSubMchId", "")
          ELSE IF Truthy(Get(data, "sign")) /\ getSign(data, "") # Get(data, "sign")
            THEN Error("InvalidSignature", "")
          ELSE NoError
    IN Cb2(error, data)

\* ---------------------------------------------------------------- inputs
\* the objects with at most n of the given fields, doms a sequence of
\* <<key, values>>, keys inserted in the order of doms
RECURSIVE Combos(_, _)
Combos(doms, n) ==
  IF doms = <<>> \/ n = 0 THEN {<<>>}
  ELSE Combos(Tail(doms), n) \cup
       { << <<Head(doms)[1], v>> >> \o o :
           v \in Head(doms)[2], o \in Combos(Tail(doms), n - 1) }

\* the objects with at most n of the given keys, in every insertion order
RECURSIVE Arrangements(_, _, _)
Arrangements(keys, values, n) ==
  IF n = 0 THEN {<<>>}
  ELSE {<<>>} \cup
       UNION { { << <<key, v>> >> \o o :
                   v \in values, o \in Arrangements(keys \ {key}, values, n - 1) } :
               key \in keys }

\* fields a caller passes, with the values tried for each
CallerFields ==
  << <<"appid", {Str("wxCaller"), Undefined}>>,
     <<"long_url", {Str("http://x/?a=1")}>>,
     <<"mch_id", {Str("mchCaller")}>>,
     <<"nonce_str", {Str("n0")}>>,
     <<"openid", {Str("o1"), Str("")}>>,
     <<"product_id", {Str("p1"), Null}>>,
     <<"sign", {Str("callerSign")}>>,
     <<"sub_openid", {Str("so1")}>>,
     <<"total_fee", {Num(0), Num(100)}>> >>

CallerParams == Combos(CallerFields, MaxParams)

\* the destinations and options.required of the operations that call
\* signedQuery besides unifiedOrder
Urls == {SHORT_URL, REDPACK_SEND, TRANSFERS}

RequiredLists ==
  { <<>>, <<"long_url">>, <<"total_fee", "openid|sub_openid", "product_id">> }

\* orders a caller of unifiedOrder starts from
NativeOrder ==
  << <<"body", Str("T")>>, <<"out_trade_no", Str("1")>>, <<"total_fee", Str("100")>>,
     <<"spbill_create_ip", Str("1.2.3.4")>>, <<"trade_type", Str("NATIVE")>>,
     <<"product_id", Str("p1")>> >>

JsapiOrder ==
  << <<"body", Str("T")>>, <<"out_trade_no", Str("1")>>, <<"total_fee", Str("100")>>,
     <<"spbill_create_ip", Str("1.2.3.4")>>, <<"trade_type", Str("JSAPI")>> >>

BaseOrders == {<<>>, NativeOrder, JsapiOrder}

\* packages handed to getSign directly
Pkgs ==
  Arrangements({"a", "b", "c", "sign"}, {Str("1"), Str(""), Undefined, Null}, MaxPkg)

\* the canonical string of the protocol (spec 4.1): the fields other than
\* sign whose value is a non-empty string, as name=value in ascending order
\* of name, joined by '&'
RECURSIVE CanonicalOf(_, _)
CanonicalOf(fields, names) ==
  IF names = {} THEN ""
  ELSE LET first == CHOOSE x \in names : \A y \in names : Rank(x) <= Rank(y)
           rest == CanonicalOf(fields, names \ {first})
           pair == first \o "=" \o JsString(Get(fields, first))
       IN IF rest = "" THEN pair ELSE pair \o "&" \o rest

Canonical(fields) ==
  CanonicalOf(fields,
    { fields[j][1] : j \in { i \in 1..Len(fields) :
        fields[i][1] # "sign" /\ fields[i][2] \notin {Undefined, Null, Str("")} } })

\* the signature the remote service puts on fields with a shared secret
\* (spec 4.2): upper-case hex MD5 of canonical string & "&key=" & secret
RemoteSign(fields, key) == Hex("md5", Canonical(fields) \o "&key=" \o key, TRUE)

\* fields of a response, with the values tried for each
ResponseFields ==
  << <<"return_code", {Str("SUCCESS"), Str("FAIL")}>>,
     <<"result_code", {Str("SUCCESS"), Str("FAIL")}>>,
     <<"appid", {Str("wx1"), Str("wx2")}>>,
     <<"mch_id", {Str("mch1"), Str("mch2")}>>,
     <<"mchid", {Str("mch1"), Str("mch2")}>>,
     <<"sub_mch_id", {Str("sub1"), Str("sub2")}>>,
     <<"prepay_id", {Str("abc")}>> >>

\* the sign values a response carries: the remote signature under the
\* client's secret, its lower-case spelling, the signature under another
\* secret, and an empty sign element
SignValues(fields) ==
  { RemoteSign(fields, "key1"),
    [RemoteSign(fields, "key1") EXCEPT !.upper = FALSE],
    RemoteSign(fields, "key2"),
    Str("") }

ResponseObjects == Combos(ResponseFields, MaxRespFields)

RawBodies ==
  {Malformed, Blank} \cup
  { Doc(o) : o \in ResponseObjects } \cup
  UNION { { Doc(Append(o, <<"sign", s>>)) : s \in SignValues(o) } : o \in ResponseObjects }

\* ------------------------------------------------------------------ init
NoCall == [op |-> "none", url |-> "", params |-> <<>>, required |-> <<>>]
NoLocal == [merged |-> <<>>, params |-> <<>>, missing |-> <<>>]
NoSigned == [pkg |-> <<>>, string1 |-> "", signValue |-> Undefined]

Init ==
  /\ config \in Configs
  /\ pc = "idle"
  /\ call = NoCall
  /\ local = NoLocal
  /\ request = NoXml
  /\ transport = "none"
  /\ body = NoBody
  /\ callbacks = <<>>
  /\ inner = <<>>
  /\ signed = NoSigned

\* --------------------------------------------------------------- actions
\* the default profile signedQuery picks by destination url
keysNeedExtendFor(url) ==
  IF url = REDPACK_SEND THEN <<"mch_id", "nonce_str">>
  ELSE IF url = TRANSFERS THEN <<"nonce_str">>
  ELSE <<"appid", "mch_id", "sub_mch_id", "nonce_str">>

\* signedQuery's params after the merge and the insertion of sign
signedParams(merged) == Extend(<< <<"sign", getSign(merged, "")>> >>, merged)

\* signedQuery's params as serialized: long_url escaped, values made strings
finalParams(withSign) ==
  LET escaped == IF Truthy(Get(withSign, "long_url"))
                   THEN Put(withSign, "long_url", encodeURIComponent(Get(withSign, "long_url")))
                   ELSE withSign
  IN [i \in 1..Len(escaped) |->
        IF escaped[i][2] # Undefined /\ escaped[i][2] # Null
          THEN <<escaped[i][1], toString(escaped[i][2])>>
          ELSE escaped[i]]

\* missingOf stopping at the first unsatisfied entry
missingOfFirstOnly(required, params) ==
  LET all == SelectSeq(required,
               LAMBDA key : ~ \E i \in 1..Len(split(key)) : Truthy(Get(params, split(key)[i])))
  IN IF all = <<>> THEN <<>> ELSE <<all[1]>>

\* the required entries none of whose alternatives is truthy in params
missingOf(required, params) ==
  SelectSeq(required,
    LAMBDA key : ~ \E i \in 1..Len(split(key)) : Truthy(Get(params, split(key)[i])))

\* the callback getBrandWCPayRequestParams hands to unifiedOrder, called with
\* an error: it returns callback(err), the invocations of the caller's
\* callback it makes
brandCallback(cb) == << Cb1(cb.err) >>

\* the same callback called without an error: a plain function, its this is
\* undefined, so this.getSign(params) throws a TypeError before the payload
\* is signed and before the caller's callback is reached
BrandTypeError == Error("TypeError", "Cannot read property 'getSign' of undefined")

\* signedQuery up to its suspension at axios.get, or to its return on missing
\* fields; op and args are the entry point called and its arguments
signedQuery(url, params, required, op, args) ==
  \E nonce \in Nonces :
    LET merged == extendWithDefault(params, keysNeedExtendFor(url), nonce)
        final == finalParams(signedParams(merged))
        missing == missingOf(required, final)
    IN /\ call' = [op |-> op, url |-> url, params |-> args, required |-> required]
       /\ local' = [merged |-> merged, params |-> final, missing |-> missing]
       /\ IF missing # <<>>
            THEN /\ LET cb == Cb1(Error("string", "missing params " \o join(missing, ",")))
                    IN IF op = "getBrandWCPayRequestParams"
                         THEN /\ inner' = Append(inner, cb)
                              /\ callbacks' = callbacks \o brandCallback(cb)
                         ELSE /\ inner' = inner
                              /\ callbacks' = Append(callbacks, cb)
                 /\ pc' = "done"
                 /\ request' = NoXml
                 /\ transport' = "none"
            ELSE /\ callbacks' = callbacks
                 /\ inner' = inner
                 /\ pc' = "await"
                 /\ request' = buildXml(final)
                 /\ transport' = "pending"
       /\ UNCHANGED <<config, body, signed>>

\* a call of signedQuery by one of the operations
SignedQuery ==
  /\ pc = "idle"
  /\ \E url \in Urls, params \in CallerParams, required \in RequiredLists :
       signedQuery(url, params, required, "signedQuery", params)

\* unifiedOrder(params, callback); op and args are the entry point called
\* and its arguments
unifiedOrder(order, op, args) ==
  LET requiredData ==
        <<"body", "out_trade_no", "total_fee", "spbill_create_ip", "trade_type">> \o
        (IF Get(order, "trade_type") = Str("JSAPI") THEN <<"openid|sub_openid">>
         ELSE IF Get(order, "trade_type") = Str("NATIVE") THEN <<"product_id">>
         ELSE <<>>)
      params == Put(order, "notify_url",
                  IF Truthy(Get(order, "notify_url")) THEN Get(order, "notify_url")
                  ELSE config.notifyUrl)
  IN signedQuery(UNIFIED_ORDER, params, requiredData, op, args)

\* a call of unifiedOrder
UnifiedOrder ==
  /\ pc = "idle"
  /\ \E base \in BaseOrders, extra \in CallerParams :
       unifiedOrder(Extend(base, extra), "unifiedOrder", Extend(base, extra))

\* getBrandWCPayRequestParams(order, callback) up to the suspension of step 1
GetBrandWCPayRequestParams ==
  /\ pc = "idle"
  /\ \E base \in BaseOrders, extra \in CallerParams, nonce \in Nonces :
       LET order == extendWithDefault(Extend(base, extra), <<"notify_url">>, nonce)
       IN unifiedOrder(order, "getBrandWCPayRequestParams", Extend(base, extra))

\* the HTTP layer takes the request off the client; signedQuery stays
\* suspended and reads none of its locals again
TransportTake ==
  /\ pc = "await" /\ transport = "pending"
  /\ transport' = "taken"
  /\ request' = NoXml
  /\ local' = NoLocal
  /\ call' = [NoCall EXCEPT !.op = call.op]
  /\ UNCHANGED <<config, pc, body, callbacks, inner, signed>>

\* axios.get resolves: signedQuery resumes with validate(result.data, callback)
AxiosResolve ==
  /\ pc = "await" /\ transport = "taken"
  /\ call.op # "getBrandWCPayRequestParams"
  /\ \E data \in RawBodies :
       /\ body' = data
       /\ callbacks' = Append(callbacks, validate(data))
  /\ transport' = "resolved"
  /\ pc' = "done"
  /\ UNCHANGED <<config, call, local, request, inner, signed>>

\* the same for step 1 of getBrandWCPayRequestParams, step 1 reporting an
\* error: the callback handed to unifiedOrder passes it on
BrandStepOneFails ==
  /\ pc = "await" /\ transport = "taken"
  /\ call.op = "getBrandWCPayRequestParams"
  /\ \E data \in RawBodies :
       /\ validate(data).err # NoError
       /\ body' = data
       /\ inner' = Append(inner, validate(data))
       /\ callbacks' = callbacks \o brandCallback(validate(data))
  /\ transport' = "resolved"
  /\ pc' = "done"
  /\ UNCHANGED <<config, call, local, request, signed>>

\* the same, step 1 succeeding: step 2 throws BrandTypeError inside
\* xml2js.parseString, within the try block of signedQuery. The parser
\* either lets it through to the empty catch block, or reports it as its
\* own error to the function validate gave it, which names it XMLParseError
\* and calls the callback handed to unifiedOrder a second time
BrandStepTwoThrows ==
  /\ pc = "await" /\ transport = "taken"
  /\ call.op = "getBrandWCPayRequestParams"
  /\ \E data \in RawBodies :
       /\ validate(data).err = NoError
       /\ body' = data
       /\ \/ /\ inner' = Append(inner, validate(data))
             /\ callbacks' = callbacks
          \/ LET again == CbRaw([BrandTypeError EXCEPT !.name = "XMLParseError"])
             IN /\ inner' = inner \o << validate(data), again >>
                /\ callbacks' = callbacks \o brandCallback(again)
  /\ transport' = "resolved"
  /\ pc' = "done"
  /\ UNCHANGED <<config, call, local, request, signed>>

\* axios.get rejects: the catch block of signedQuery is empty
AxiosReject ==
  /\ pc = "await" /\ transport = "taken"
  /\ transport' = "rejected"
  /\ pc' = "done"
  /\ UNCHANGED <<config, call, local, request, body, callbacks, inner, signed>>

\* validate(xml, callback) called directly
Validate ==
  /\ pc = "idle"
  /\ \E xml \in RawBodies :
       /\ body' = xml
       /\ callbacks' = Append(callbacks, validate(xml))
  /\ call' = [NoCall EXCEPT !.op = "validate"]
  /\ pc' = "done"
  /\ UNCHANGED <<config, local, request, transport, inner, signed>>

\* getSign(pkg) on a package
GetSign ==
  /\ pc = "idle"
  /\ \E pkg \in Pkgs :
       signed' = [pkg |-> pkg, string1 |-> getSignString1(pkg),
                  signValue |-> getSign(pkg, "")]
  /\ call' = [NoCall EXCEPT !.op = "getSign"]
  /\ pc' = "done"
  /\ UNCHANGED <<config, local, request, transport, body, callbacks, inner>>

\* the call is over; the client is used again
Return ==
  /\ pc = "done"
  /\ pc' = "idle"
  /\ call' = NoCall
  /\ local' = NoLocal
  /\ request' = NoXml
  /\ transport' = "none"
  /\ body' = NoBody
  /\ callbacks' = <<>>
  /\ inner' = <<>>
  /\ signed' = NoSigned
  /\ UNCHANGED config

Next ==
  \/ SignedQuery
  \/ UnifiedOrder
  \/ GetBrandWCPayRequestParams
  \/ TransportTake
  \/ AxiosResolve
  \/ BrandStepOneFails
  \/ BrandStepTwoThrows
  \/ AxiosReject
  \/ Validate
  \/ GetSign
  \/ Return

Spec == Init /\ [][Next]_vars

\* ------------------------------------------------------------ properties
\* a call of validate (direct, or from signedQuery's continuation) is over
Validated ==
  /\ pc = "done" /\ body # NoBody /\ Len(callbacks) = 1
  /\ call.op \in {"validate", "signedQuery", "unifiedOrder"}

\* the body parsed, and the field map validate checks
Parsed == body.parse \in {"xml", "null"}
Data == body.fields

\* the outcome validate reported
Outcome == callbacks[1]

\* the signature of the protocol for the response's fields under the
\* client's secret
ExpectedSign == RemoteSign(Data, JsString(config.partnerKey))

\* the six checks of the response validator, in order, each with its error
ReturnFails == Get(Data, "return_code") = Str("FAIL")
ResultFails == Get(Data, "result_code") = Str("FAIL")
AppIdMismatch == Truthy(Get(Data, "appid")) /\ Get(Data, "appid") # config.appId
MchIdMismatch ==
  \/ Truthy(Get(Data, "mch_id")) /\ Get(Data, "mch_id") # config.mchId
  \/ Truthy(Get(Data, "mchid")) /\ Get(Data, "mchid") # config.mchId
SubMchIdMismatch ==
  Truthy(config.subMchId) /\ Get(Data, "sub_mch_id") # config.subMchId
SignMismatch == Truthy(Get(Data, "sign")) /\ Get(Data, "sign") # ExpectedSign

Checks ==
  << <<ReturnFails, "ProtocolError">>, <<ResultFails, "BusinessError">>,
     <<AppIdMismatch, "InvalidAppId">>, <<MchIdMismatch, "InvalidMchId">>,
     <<SubMchIdMismatch, "InvalidSubMchId">>, <<SignMismatch, "InvalidSignature">> >>

FirstFailing ==
  IF \E i \in 1..Len(Checks) : Checks[i][1]
    THEN Checks[CHOOSE i \in 1..Len(Checks) :
                  Checks[i][1] /\ \A j \in 1..(i - 1) : ~Checks[j][1]][2]
    ELSE "null"

\* C1: a call of signedQuery whose transport exchange fails ends by invoking
\* the callback exactly once, with an error
C1_TransportFailureReported ==
  (pc = "done" /\ transport = "rejected") =>
    (Len(callbacks) = 1 /\ callbacks[1].err # NoError)

\* C2: validate passes a second argument only without an error (the field
\* map) or with XMLParseError (the raw body); every other error comes alone
C2_NoDataWithError ==
  Validated =>
    CASE Outcome.err = NoError -> Outcome.second = "fields"
      [] Outcome.err.name = "XMLParseError" -> Outcome.second = "raw"
      [] OTHER -> Outcome.second = "none"

\* C3: for a parsed response validate reports the error of the first
\* failing check in the order return_code, result_code, appid, mch_id or
\* mchid, sub_mch_id, sign, whatever the later checks would say
C3_FirstFailingCheck ==
  (Validated /\ Parsed) => Outcome.err.name = FirstFailing

\* C3 witness: a wrong appid under a valid signature is InvalidAppId
C3_Witness ==
  /\ Validated /\ Parsed
  /\ AppIdMismatch
  /\ Truthy(Get(Data, "sign")) /\ ~SignMismatch
  /\ Outcome.err.name = "InvalidAppId"

\* C4: a response that lacks identity fields and passes the checks of the
\* fields it has is accepted, under every configuration
C4_AbsentIdentityAccepted ==
  ( /\ Validated /\ Parsed
    /\ ~ReturnFails /\ ~ResultFails
    /\ ~AppIdMismatch /\ ~MchIdMismatch
    /\ ~Has(Data, "sub_mch_id")
    /\ ~SignMismatch )
  => Outcome.err = NoError

\* C5 as claimed: a response that passes the status and identity checks and
\* carries a sign field is accepted exactly if sign is the upper-case
\* signature of its other non-empty fields, and is InvalidSignature if not
C5_SignFieldDecides ==
  ( /\ Validated /\ Parsed
    /\ ~ReturnFails /\ ~ResultFails
    /\ ~AppIdMismatch /\ ~MchIdMismatch /\ ~SubMchIdMismatch
    /\ Has(Data, "sign") )
  => /\ (Outcome.err = NoError) <=> (Get(Data, "sign") = ExpectedSign)
     /\ Outcome.err # NoError => Outcome.err.name = "InvalidSignature"

\* C5 as amended: the same for a response whose sign field is not empty; an
\* accepted response is returned with its fields unchanged
C5_NonEmptySignDecides ==
  ( /\ Validated /\ Parsed
    /\ ~ReturnFails /\ ~ResultFails
    /\ ~AppIdMismatch /\ ~MchIdMismatch /\ ~SubMchIdMismatch
    /\ Truthy(Get(Data, "sign")) )
  => /\ (Outcome.err = NoError) <=> (Get(Data, "sign") = ExpectedSign)
     /\ Outcome.err # NoError => Outcome.err.name = "InvalidSignature"
     /\ Outcome.err = NoError => (Outcome.second = "fields" /\ Outcome.fields = Data)

\* C5 witness: the lower-case spelling of the right signature is rejected
C5_Witness ==
  /\ Validated /\ Parsed
  /\ Get(Data, "sign") = [ExpectedSign EXCEPT !.upper = FALSE]
  /\ Get(Data, "prepay_id") = Str("abc")
  /\ Outcome.err.name = "InvalidSignature"

\* a getSign call on a package is over
SignedDone == pc = "done" /\ call.op = "getSign"

\* a field map without sign and without its undefined, null and empty fields
Stripped(obj) ==
  SelectSeq(obj, LAMBDA f : f[1] # "sign" /\ f[2] \notin {Undefined, Null, Str("")})

\* C6: the canonical string getSign signs is that of the map without sign
\* and without its undefined, null and empty-string fields
C6_EmptyFieldsExcluded ==
  SignedDone => signed.string1 = toQueryString(Stripped(signed.pkg))

\* the orders in which the fields of obj can have been inserted
Reorderings(obj) ==
  { [i \in 1..Len(obj) |-> obj[f[i]]] : f \in Permutations(1..Len(obj)) }

\* the fields toQueryString keeps of obj
KeptNames(obj) ==
  { obj[i][1] : i \in { j \in 1..Len(obj) : obj[j][2] # Undefined /\ obj[j][2] # Str("") } }

\* C7: the canonical string and the signature are the same for every
\* insertion order of the same fields, and the string lists the kept fields
\* as name=value in ascending order of name, joined by '&'
C7_OrderIndependent ==
  SignedDone =>
    /\ \A q \in Reorderings(signed.pkg) :
         /\ toQueryString(q) = toQueryString(signed.pkg)
         /\ getSignString1(q) = signed.string1
         /\ getSign(q, "") = signed.signValue
    /\ signed.string1 = CanonicalOf(signed.pkg, KeptNames(signed.pkg) \ {"sign"})

\* C7 witness: a package whose fields were inserted in descending order
C7_Witness ==
  /\ SignedDone
  /\ Len(signed.pkg) = 3
  /\ Keys(signed.pkg) = <<"c", "b", "a">>
  /\ signed.string1 = "a=1&b=1&c=1"

\* signedQuery has run to its suspension or to its return on missing fields
Built == pc \in {"await", "done"} /\ call.op \in {"signedQuery", "unifiedOrder"} /\
         transport \in {"none", "pending"}

\* the request is with the transport, not yet taken
Sent == pc = "await" /\ transport = "pending"

\* C8: the sign field of the serialized request is the signature computed
\* over the merged fields without any sign the caller supplied
C8_SignIsComputed ==
  Sent =>
    /\ Get(local.params, "sign") = getSign(Delete(local.merged, "sign"), "")
    /\ Get(request.children, "sign") = JsString(getSign(Delete(local.merged, "sign"), ""))

\* the required entries none of whose alternatives satisfies test in fields
Unsatisfied(fields, test(_)) ==
  SelectSeq(call.required,
    LAMBDA key : ~ \E i \in 1..Len(split(key)) : test(Get(fields, split(key)[i])))

\* the outcome the required-field rule asks for, given the unsatisfied entries
RequiredRule(unsatisfied) ==
  IF unsatisfied # <<>>
    THEN /\ pc = "done"
         /\ callbacks = << Cb1(Error("string", "missing params " \o join(unsatisfied, ","))) >>
         /\ transport = "none"
         /\ request = NoXml
    ELSE /\ pc = "await"
         /\ callbacks = <<>>
         /\ transport = "pending"
         /\ request # NoXml

\* C9 as claimed: an entry is satisfied exactly if one of its alternatives
\* is truthy in the merged fields; the unsatisfied entries are all reported
\* in one error, in order, and nothing is sent
C9_TruthyInMerged ==
  Built => RequiredRule(Unsatisfied(local.merged, Truthy))

\* a value that is neither undefined nor null and whose string form is not
\* empty
Present(v) == v \notin {Undefined, Null} /\ JsString(v) # ""

\* C9 as amended: an entry is satisfied exactly if one of its alternatives
\* has, in the merged fields, a value that is neither undefined nor null and
\* whose string form is not empty (the check runs on the values made
\* strings, so the number 0 satisfies it)
C9_PresentInMerged ==
  Built => RequiredRule(Unsatisfied(local.merged, Present))

\* C9 witness: total_fee is the number 0 and counts as present; the two
\* other entries are unsatisfied and are both named, in order
C9_Witness ==
  /\ Built /\ pc = "done"
  /\ call.required = <<"total_fee", "openid|sub_openid", "product_id">>
  /\ Get(call.params, "total_fee") = Num(0)
  /\ Get(call.params, "openid") = Str("")
  /\ callbacks[1].err.message = "missing params openid|sub_openid,product_id"

\* the default profile of a destination
Profile(url) ==
  IF url = REDPACK_SEND THEN {"mch_id", "nonce_str"}
  ELSE IF url = TRANSFERS THEN {"nonce_str"}
  ELSE {"appid", "mch_id", "sub_mch_id", "nonce_str"}

\* the configured value behind a default field
Configured(key) ==
  CASE key = "appid" -> config.appId
    [] key = "mch_id" -> config.mchId
    [] key = "sub_mch_id" -> config.subMchId
    [] OTHER -> Undefined

KeySet(obj) == { obj[i][1] : i \in 1..Len(obj) }

\* the fields signedQuery was called with: unifiedOrder adds notify_url
Supplied ==
  IF call.op = "unifiedOrder" THEN KeySet(call.params) \cup {"notify_url"}
  ELSE KeySet(call.params)

\* C10: the merge keeps every caller field with its value, adds the
\* profile's defaults whose configured value is not empty and nothing else;
\* the request for order creation has every caller field, appid, mch_id, a
\* nonce_str and sign
C10_DefaultsMerged ==
  Built =>
    /\ \A key \in KeySet(call.params) :
         Has(local.merged, key) /\ Get(local.merged, key) = Get(call.params, key)
    /\ \A key \in Profile(call.url) \ Supplied :
         IF key = "nonce_str" THEN Get(local.merged, key) \in Nonces
         ELSE IF Truthy(Configured(key))
           THEN Get(local.merged, key) = Configured(key)
           ELSE ~Has(local.merged, key)
    /\ KeySet(local.merged) \subseteq Supplied \cup Profile(call.url)
    /\ (Sent /\ call.url = UNIFIED_ORDER) =>
         /\ \A key \in KeySet(call.params) \cup {"appid", "mch_id", "nonce_str", "sign"} :
              Has(local.params, key) /\ Has(request.children, key)
         /\ \A key \in KeySet(call.params) \ {"long_url"} :
              Get(call.params, key).k = "string" =>
                /\ Get(local.params, key) = Get(call.params, key)
                /\ Get(request.children, key) = Get(call.params, key).s

\* C10 witness: an order with the caller's own appid is sent with it, and
\* with the configured mch_id
C10_Witness ==
  /\ Sent /\ call.op = "unifiedOrder"
  /\ Get(call.params, "appid") = Str("wxCaller")
  /\ Get(call.params, "body") = Str("T")
  /\ Get(local.params, "appid") = Str("wxCaller")
  /\ Get(local.params, "mch_id") = Str("mch1")
  /\ ~Has(local.params, "sub_mch_id")

\* a call of getBrandWCPayRequestParams is over
BrandDone == pc = "done" /\ call.op = "getBrandWCPayRequestParams"

\* the payload of step 2 for the response of step 1
IsPayload(cb) ==
  /\ cb.err = NoError /\ cb.second = "fields"
  /\ Get(cb.fields, "appId") = config.appId
  /\ Get(cb.fields, "signType") = Str("MD5")
  /\ Get(cb.fields, "package") = Str("prepay_id=" \o JsString(Get(Data, "prepay_id")))
  /\ Truthy(Get(cb.fields, "timeStamp")) /\ Truthy(Get(cb.fields, "nonceStr"))
  /\ Truthy(Get(cb.fields, "paySign"))

\* C11: a call of getBrandWCPayRequestParams invokes the caller's callback
\* exactly once: with step 1's error alone if step 1 fails, and with the
\* signed payload or an error of step 2 if step 1 succeeds
C11_OneOutcome ==
  BrandDone =>
    /\ Len(callbacks) = 1
    /\ callbacks[1].err # NoError => callbacks[1].second = "none"
    /\ (inner # <<>> /\ inner[1].err # NoError) => callbacks[1] = Cb1(inner[1].err)
    /\ (inner # <<>> /\ inner[1].err = NoError) =>
         (IsPayload(callbacks[1]) \/ callbacks[1].err # NoError)

\* the fields a receiver parses out of the request
Received == [i \in 1..Len(request.children) |->
               <<request.children[i][1], Str(request.children[i][2])>>]

\* C12: the sign a request carries is the signature a receiver computes
\* from the serialized fields, sign removed and empty fields dropped, with
\* the same secret
C12_SignMatchesSerialized ==
  Sent =>
    Get(request.children, "sign") =
      JsString(RemoteSign(Received, JsString(config.partnerKey)))

====
